---- MODULE Spec2Model ----
(***************************************************************************)
(* Vector-clock server of src/src/main.rs.                                 *)
(*                                                                         *)
(* Five specifications share the clock operators:                          *)
(*   SpecClock  one Server value driven through its methods (increment,    *)
(*              update_clock, send_event) with arbitrary received clocks;  *)
(*   SpecDist   the three servers exchanging the messages they send;       *)
(*   SpecProc   one process: the command loop of main, the handler thread, *)
(*              the Mutex around the Server, the listener and the wire;    *)
(*   SpecOrder  one Server given a set of calls, made in every order;      *)
(*   SpecWide   one Server with entries at the ends of the i32 range.      *)
(***************************************************************************)
EXTENDS Integers, Sequences, FiniteSets, TLC

(***************************************************************************)
(* Program constants.                                                      *)
(***************************************************************************)
N == 3
MaxI32 == 2147483647
MinI32 == -2147483647 - 1
Index == 0 .. (N - 1)
\* let mut buffer = [0; 1024]
BufSize == 1024

(***************************************************************************)
(* Bounds of the model.                                                    *)
(***************************************************************************)
MaxVal == 2
MaxOwn == 4
MaxSent == 2
MaxEvents == 4
MaxDeliveries == 1
MaxPlan == 3
MaxLocal == 3

VARIABLES
    \* one Server (SpecClock, SpecProc)
    clock_index,    \* Server.clock_index
    clock,          \* Server.clock
    sent,           \* the messages send_event has written, in order
    last,           \* history: the last call made on the Server
    \* the three servers (SpecDist)
    clocks,         \* Server.clock of each server, by clock index
    net,            \* messages sent and not yet received
    hist,           \* history: the events so far, each with its clock
    lastEv,         \* history: the latest event of each server (0: none)
    \* one process (SpecProc)
    mpc,            \* main thread: where the command loop is
    input,          \* the line the command loop is processing
    hpc,            \* handler thread: where handle_events is
    mutex,          \* who holds the Mutex around the Server
    poisoned,       \* the Mutex is poisoned (a holder panicked)
    shutdown_signal,\* Server.shutdown_signal.0
    backlog,        \* connections pending on the listener
    stream,         \* the connection handle_events has accepted
    msg_clock,      \* msg.clock of the message being merged
    mi,             \* update_clock's loop index i
    delivered,      \* history: connections that reached the listener
    merged,         \* history: connections whose message was merged
    ended,          \* history: the command loop was told to end
    due,            \* history: well-formed messages delivered while running
    seen,           \* history: the last snapshot the command loop took
    \* one Server given a set of calls to make in any order (SpecOrder)
    plan,           \* the calls to make on the Server
    done,           \* history: the calls made so far (indices of plan), in order
    \* the build (SpecWide)
    overflow_checks \* the profile's overflow-checks: dev on, release off

clockVars == <<clock_index, clock, sent, last>>
distVars == <<clocks, net, hist, lastEv>>
mainVars == <<mpc, input, ended, seen>>
handlerVars == <<hpc, stream, msg_clock, mi, merged>>
lockVars == <<mutex, poisoned, shutdown_signal>>
netVars == <<backlog, delivered, due>>
procVars == <<mainVars, handlerVars, lockVars, netVars>>
orderVars == <<plan, done>>
buildVars == <<overflow_checks>>
vars == <<clockVars, distVars, procVars, orderVars, buildVars>>

(***************************************************************************)
(* The clock operators (pure).                                             *)
(***************************************************************************)
\* i32::max
Max(a, b) == IF a >= b THEN a ELSE b

\* `+= 1` on an i32: the wrapped result of a build without overflow checks.
AddOne(x) == IF x = MaxI32 THEN MinI32 ELSE x + 1

\* "server1" -> 0, "server2" -> 1, "server3" -> 2
ServerIds == {"server1", "server2", "server3"}
ClockIndexOf(id) == CASE id = "server1" -> 0 [] id = "server2" -> 1 [] id = "server3" -> 2
IdOf(idx) == CHOOSE id \in ServerIds : ClockIndexOf(id) = idx

\* "server1" -> 8001, "server2" -> 8002, "server3" -> 8003
PortOf(id) == CASE id = "server1" -> 8001 [] id = "server2" -> 8002 [] id = "server3" -> 8003

ZeroClock == [i \in Index |-> 0]

\* Server::new: [0; 3] with 1 at the own index
new(idx) == [ZeroClock EXCEPT ![idx] = 1]

\* faulty variant: the increment lands on index 0 whatever the own index is
increment_index0(c, idx) == [c EXCEPT ![0] = AddOne(c[0])]

\* Server::increment
increment(c, idx) == [c EXCEPT ![idx] = AddOne(c[idx])]

\* faulty variant: the received entry is added to the local one
merge_entry_sum(c, i, other) == [c EXCEPT ![i] = c[i] + other[i]]

\* the body of update_clock's loop: self.clock[i] = self.clock[i].max(other_clock[i])
merge_entry(c, i, other) == [c EXCEPT ![i] = Max(c[i], other[i])]

\* faulty variant: the received entries overwrite the local ones
update_clock_overwrite(c, idx, other) == increment([i \in Index |-> other[i]], idx)

\* faulty variant: increment first, merge afterwards
update_clock_incfirst(c, idx, other) ==
    [i \in Index |-> Max(increment(c, idx)[i], other[i])]

\* faulty variant: the trailing increment is left out
update_clock_noinc(c, idx, other) == [i \in Index |-> Max(c[i], other[i])]

\* Server::update_clock: the point-wise max for i in 0..3, then increment
update_clock(c, idx, other) ==
    increment(merge_entry(merge_entry(merge_entry(c, 0, other), 1, other), 2, other), idx)

\* faulty variant: the message is built before the increment
send_event_stale(c, idx) ==
    [clock |-> increment(c, idx), msg |-> [sender_id |-> IdOf(idx), clock |-> c]]

\* Server::send_event up to the connect: the increment, then the message built
\* from the incremented clock (a copy of the array)
send_event(c, idx) ==
    LET c2 == increment(c, idx)
    IN  [clock |-> c2, msg |-> [sender_id |-> IdOf(idx), clock |-> c2]]

(***************************************************************************)
(* SpecClock: one Server and the calls made on it.                         *)
(***************************************************************************)
RemoteVals == -1 .. MaxVal
RemoteClocks == [Index -> RemoteVals]

NoCall(c) == [op |-> "new", pre |-> c, remote |-> ZeroClock]

\* The servers of SpecDist before any event.
IdleDist ==
    /\ clocks = [p \in Index |-> new(p)]
    /\ net = {}
    /\ hist = <<>>
    /\ lastEv = [p \in Index |-> 0]

\* No calls planned (every specification but SpecOrder).
IdleOrder ==
    /\ plan = <<>>
    /\ done = <<>>

\* The entries stay far from the ends of i32, where the build makes no
\* difference (every specification but SpecWide).
IdleBuild == overflow_checks = FALSE

\* The process of SpecProc right after main has spawned the handler thread.
NoStream == [id |-> 0]
NoSnapshot == [op |-> "none", hpc |-> "spawned"]
IdleProc ==
    /\ mpc = "read_line"
    /\ input = ""
    /\ hpc = "spawned"
    /\ mutex = "none"
    /\ poisoned = FALSE
    /\ shutdown_signal = FALSE
    /\ backlog = <<>>
    /\ stream = NoStream
    /\ msg_clock = ZeroClock
    /\ mi = 0
    /\ delivered = 0
    /\ merged = {}
    /\ due = {}
    /\ ended = FALSE
    /\ seen = NoSnapshot

InitClock ==
    /\ clock_index \in Index
    /\ clock = new(clock_index)
    /\ sent = <<>>
    /\ last = NoCall(clock)
    /\ IdleDist
    /\ IdleProc
    /\ IdleOrder
    /\ IdleBuild

CallIncrement ==
    /\ clock[clock_index] < MaxOwn
    /\ clock' = increment(clock, clock_index)
    /\ last' = [op |-> "increment", pre |-> clock, remote |-> ZeroClock]
    /\ UNCHANGED <<clock_index, sent, distVars, orderVars, buildVars, procVars>>

CallUpdateClock(other) ==
    /\ clock[clock_index] < MaxOwn
    /\ clock' = update_clock(clock, clock_index, other)
    /\ last' = [op |-> "update_clock", pre |-> clock, remote |-> other]
    /\ UNCHANGED <<clock_index, sent, distVars, orderVars, buildVars, procVars>>

CallSendEvent(target) ==
    /\ clock[clock_index] < MaxOwn
    /\ Len(sent) < MaxSent
    /\ clock' = send_event(clock, clock_index).clock
    /\ sent' = Append(sent, [to |-> PortOf(target), msg |-> send_event(clock, clock_index).msg])
    /\ last' = [op |-> "send_event", pre |-> clock, remote |-> ZeroClock]
    /\ UNCHANGED <<clock_index, distVars, orderVars, buildVars, procVars>>

NextClock ==
    \/ CallIncrement
    \/ \E other \in RemoteClocks : CallUpdateClock(other)
    \/ \E target \in ServerIds : CallSendEvent(target)

SpecClock == InitClock /\ [][NextClock]_vars

(***************************************************************************)
(* Claims on SpecClock.                                                    *)
(***************************************************************************)
own == clock_index

\* C1: point-wise monotonicity. No call (increment, send_event, update_clock)
\* makes any entry of the clock smaller than it was before the call.
C1_Monotonic == [][\A i \in Index : clock'[i] >= clock[i]]_vars

\* C1 witness: a merge has raised a foreign entry and a later call has kept it.
C1_Witness ==
    /\ last.op = "increment"
    /\ \E i \in Index \ {own} : clock[i] > 0

\* C2: merge correctness. After update_clock(remote) every entry other than the
\* own one is max(pre[i], remote[i]) and the own one is max(pre, remote) + 1.
C2_MergeCorrect ==
    last.op = "update_clock" =>
        \A i \in Index :
            LET m == IF last.pre[i] >= last.remote[i] THEN last.pre[i] ELSE last.remote[i]
            IN  clock[i] = IF i = own THEN m + 1 ELSE m

\* C2 witness: a merge where the remote clock is ahead at the own index and at
\* another index, and behind at a third.
C2_Witness ==
    /\ last.op = "update_clock"
    /\ last.remote[own] > last.pre[own]
    /\ \E i \in Index \ {own} : last.remote[i] > last.pre[i]
    /\ \E j \in Index \ {own} : last.remote[j] < last.pre[j]

\* C3 (as claimed): every increment and every update_clock raises the own
\* entry by exactly 1 over its value before the call.
C3_OwnPlusOneAlways ==
    last.op \in {"increment", "update_clock"} => clock[own] = last.pre[own] + 1

\* C3 (amended): an increment raises the own entry by exactly 1; update_clock
\* raises it by at least 1: by exactly 1 when the received own entry is not
\* above the local one, and to the received own entry + 1 otherwise.
C3_OwnStrictIncrease ==
    /\ last.op = "increment" => clock[own] = last.pre[own] + 1
    /\ last.op = "update_clock" =>
          /\ clock[own] >= last.pre[own] + 1
          /\ last.remote[own] <= last.pre[own] => clock[own] = last.pre[own] + 1
          /\ last.remote[own] > last.pre[own] => clock[own] = last.remote[own] + 1

\* C3 witness: a merge whose received own entry is above the local one, so the
\* own entry has risen by more than 1.
C3_Witness ==
    /\ last.op = "update_clock"
    /\ last.remote[own] > last.pre[own]
    /\ clock[own] > last.pre[own] + 1

\* C4: a local event raises the own entry by 1 and leaves every other entry
\* unchanged; the call has no failing outcome (it is enabled in every state
\* below the model's cap on the own entry).
C4_LocalEventFrame ==
    /\ last.op = "increment" =>
          \A i \in Index :
              clock[i] = IF i = own THEN last.pre[i] + 1 ELSE last.pre[i]
    /\ clock[own] < MaxOwn => ENABLED CallIncrement

\* C4 witness: a local event on a clock that already holds foreign entries.
C4_Witness ==
    /\ last.op = "increment"
    /\ \A i \in Index \ {own} : clock[i] > 0
    /\ own # 0

\* C5: a send makes exactly one own-index increment, the message carries the
\* clock as it is right after that increment, and no later call changes a
\* message already sent.
C5_SendSnapshot ==
    /\ [](last.op = "send_event" =>
            /\ Len(sent) >= 1
            /\ \A i \in Index :
                  clock[i] = IF i = own THEN last.pre[i] + 1 ELSE last.pre[i]
            /\ sent[Len(sent)].msg.clock = clock)
    /\ [][/\ Len(sent') >= Len(sent)
           /\ \A k \in 1 .. Len(sent) : sent'[k] = sent[k]]_vars

\* C5 witness: two messages in flight, and the sender's clock has moved on from
\* both after a later merge.
C5_Witness ==
    /\ Len(sent) = 2
    /\ last.op = "update_clock"
    /\ sent[1].msg.clock # sent[2].msg.clock
    /\ sent[2].msg.clock # clock

(***************************************************************************)
(* SpecDist: the three servers, each started by Server::new with its own   *)
(* index, making local events, sending to each other and handing the clock *)
(* of a message they were sent to update_clock.  Every event is recorded   *)
(* with its clock and with the set of events that happened before it       *)
(* (program order on its server, and the send of a message before its      *)
(* receipt, closed transitively).                                          *)
(***************************************************************************)
\* The events that happened before the event after e on e's server: e and its past.
UpTo(e) == IF e = 0 THEN {} ELSE hist[e].past \cup {e}

Event(p, kind, c, past) == [proc |-> p, kind |-> kind, clock |-> c, past |-> past]

\* A receive event, with the receiver's clock before it and the message's clock.
ReceiveEvent(q, c, past, pre, msg_c) ==
    [proc |-> q, kind |-> "receive", clock |-> c, past |-> past,
     pre |-> pre, msg |-> msg_c]

InitDist ==
    /\ IdleDist
    /\ clock_index = 0
    /\ clock = new(0)
    /\ sent = <<>>
    /\ last = NoCall(new(0))
    /\ IdleProc
    /\ IdleOrder
    /\ IdleBuild

DistLocalEvent(p) ==
    /\ Len(hist) < MaxEvents
    /\ clocks' = [clocks EXCEPT ![p] = increment(clocks[p], p)]
    /\ hist' = Append(hist, Event(p, "event", clocks'[p], UpTo(lastEv[p])))
    /\ lastEv' = [lastEv EXCEPT ![p] = Len(hist) + 1]
    /\ UNCHANGED <<net, clockVars, procVars, orderVars, buildVars>>

DistSendEvent(p, target) ==
    /\ Len(hist) < MaxEvents
    /\ clocks' = [clocks EXCEPT ![p] = send_event(clocks[p], p).clock]
    /\ net' = net \cup {[to |-> PortOf(target),
                         msg |-> send_event(clocks[p], p).msg,
                         ev |-> Len(hist) + 1]}
    /\ hist' = Append(hist, Event(p, "send", clocks'[p], UpTo(lastEv[p])))
    /\ lastEv' = [lastEv EXCEPT ![p] = Len(hist) + 1]
    /\ UNCHANGED <<clockVars, procVars, orderVars, buildVars>>

DistReceive(q, m) ==
    /\ Len(hist) < MaxEvents
    /\ m \in net
    /\ m.to = PortOf(IdOf(q))
    /\ clocks' = [clocks EXCEPT ![q] = update_clock(clocks[q], q, m.msg.clock)]
    /\ net' = net \ {m}
    /\ hist' = Append(hist, ReceiveEvent(q, clocks'[q],
                                         UpTo(lastEv[q]) \cup UpTo(m.ev),
                                         clocks[q], m.msg.clock))
    /\ lastEv' = [lastEv EXCEPT ![q] = Len(hist) + 1]
    /\ UNCHANGED <<clockVars, procVars, orderVars, buildVars>>

NextDist ==
    \/ \E p \in Index : DistLocalEvent(p)
    \/ \E p \in Index, target \in ServerIds : DistSendEvent(p, target)
    \/ \E q \in Index, m \in net : DistReceive(q, m)

SpecDist == InitDist /\ [][NextDist]_vars

(***************************************************************************)
(* Claims on SpecDist.                                                     *)
(***************************************************************************)
\* a is point-wise <= b and strictly less in at least one entry
ClockLess(a, b) ==
    /\ \A i \in Index : a[i] <= b[i]
    /\ \E i \in Index : a[i] < b[i]

\* C6: clock order implies causality. For any two events A and B of any of
\* the servers, if A's clock is point-wise <= B's and strictly less in some
\* entry, then A happened before B.
C6_OrderImpliesCausality ==
    \A a, b \in 1 .. Len(hist) :
        ClockLess(hist[a].clock, hist[b].clock) => a \in hist[b].past

\* C6 witness: a send on one server and a receive on a third server, ordered
\* by their clocks, with a relaying server in between.
C6_Witness ==
    \E a, b \in 1 .. Len(hist) :
        /\ hist[a].kind = "send"
        /\ hist[b].kind = "receive"
        /\ hist[a].proc # hist[b].proc
        /\ ClockLess(hist[a].clock, hist[b].clock)
        /\ \E c \in hist[b].past :
              /\ hist[c].kind = "receive"
              /\ hist[c].proc \notin {hist[a].proc, hist[b].proc}
              /\ a \in hist[c].past

(***************************************************************************)
(* The wire: serde_json::to_string on the sending side, one read into a    *)
(* zeroed 1024-byte buffer and serde_json::from_slice of the whole buffer  *)
(* on the receiving side.  A byte string is kept as the JSON text's        *)
(* content (sender_id, the clock array) and the count of whitespace bytes  *)
(* that follow the text.                                                   *)
(***************************************************************************)
Min(a, b) == IF a <= b THEN a ELSE b

RECURSIVE DigitsNat(_)
DigitsNat(n) == IF n < 10 THEN 1 ELSE 1 + DigitsNat(n \div 10)

\* the characters of an i32 printed in decimal
Digits(n) ==
    IF n = MinI32 THEN 11 ELSE IF n < 0 THEN 1 + DigitsNat(-n) ELSE DigitsNat(n)

\* the characters of the array's entries and the commas between them
RECURSIVE ArrayChars(_)
ArrayChars(seq) ==
    IF seq = <<>> THEN 0
    ELSE Digits(Head(seq)) + (IF Len(seq) > 1 THEN 1 ELSE 0) + ArrayChars(Tail(seq))

\* the length of {"sender_id":"<id>","clock":[<entries>]}
JsonLen(sender_id, seq) == 14 + Len(sender_id) + 11 + ArrayChars(seq) + 2

\* serde_json::to_string(&msg)
to_string(msg) ==
    [sender_id |-> msg.sender_id,
     clock |-> <<msg.clock[0], msg.clock[1], msg.clock[2]>>,
     pad |-> 0]

WireLen(bytes) == JsonLen(bytes.sender_id, bytes.clock) + bytes.pad

\* stream.read(&mut buffer) into [0; 1024]: the first n bytes are the
\* payload's, the other BufSize - n stay 0
read(bytes) == [bytes |-> bytes, n |-> Min(WireLen(bytes), BufSize)]

\* serde_json::from_slice(&buffer) is Ok: the text is whole, it holds a sender
\* and exactly three i32 entries, and only whitespace follows it up to the
\* end of the buffer (a 0 byte after the text is a trailing character)
from_slice_ok(buf) ==
    /\ JsonLen(buf.bytes.sender_id, buf.bytes.clock) <= buf.n
    /\ buf.n = BufSize
    /\ Len(buf.bytes.clock) = N
    /\ \A k \in 1 .. Len(buf.bytes.clock) :
          buf.bytes.clock[k] >= MinI32 /\ buf.bytes.clock[k] <= MaxI32

\* the ServerMessage from_slice yields
from_slice(buf) ==
    [sender_id |-> buf.bytes.sender_id,
     clock |-> [i \in Index |-> buf.bytes.clock[i + 1]]]

\* faulty variant: the clock of a sender that is no server is not taken
merge_input_known(msg) == IF msg.sender_id \in ServerIds THEN msg.clock ELSE ZeroClock

\* self.update_clock(&msg.clock): what handle_events hands to the merge
merge_input(msg) == msg.clock

(***************************************************************************)
(* What peers put on the listener.                                         *)
(***************************************************************************)
PeerClock == [i \in Index |-> IF i = 2 THEN 0 ELSE MaxVal]
PeerMsg(s) == [sender_id |-> s, clock |-> PeerClock]

\* the text followed by whitespace up to the size of the receive buffer
Padded(bytes) == [bytes EXCEPT !.pad = BufSize - JsonLen(bytes.sender_id, bytes.clock)]

\* a clock array of two entries
Short(bytes) == [bytes EXCEPT !.clock = <<bytes.clock[1], bytes.clock[2]>>]

\* what server2's send_event writes; the same, a message of an unknown sender
\* and one of two clock entries, the three filling the receive buffer
Payloads ==
    {to_string(PeerMsg("server2")),
     Padded(to_string(PeerMsg("server2"))),
     Padded(to_string(PeerMsg("server9"))),
     Padded(Short(to_string(PeerMsg("server2"))))}

\* a sender and exactly N integer clock entries
well_formed(bytes) == Len(bytes.clock) = N

(***************************************************************************)
(* SpecProc: one process.  main wraps the Server in Arc<Mutex<..>>, spawns *)
(* the handler thread and runs the command loop on stdin.  The process     *)
(* listens on the port peers use for its id.                               *)
(***************************************************************************)
Commands == {"end", "event", "clock", "bogus"} \cup ServerIds

Alive == mpc \notin {"exited", "panicked"}
OwnPort == PortOf(IdOf(clock_index))

\* the process ends: a handler thread still running ends with it
AfterExit(h) == IF h \in {"exited", "panicked"} THEN h ELSE "killed"

\* faulty variant: the lock is handed out whoever holds it
can_lock_any(holder) == TRUE

\* Mutex::lock returns once nobody holds the mutex
can_lock(holder) == holder = "none"

Conn(id, bytes, written) == [id |-> id, bytes |-> bytes, written |-> written]

\* the message of connection c is owed a merge: it is well-formed and it has
\* been written while the process is running
Owed(c) == IF c.written /\ well_formed(c.bytes) /\ ~ended THEN {c.id} ELSE {}

InitProc ==
    /\ clock_index \in Index
    /\ clock = new(clock_index)
    /\ sent = <<>>
    /\ last = NoCall(clock)
    /\ IdleDist
    /\ IdleProc
    /\ IdleOrder
    /\ IdleBuild

(************************ the command loop (main) **************************)
\* for line in stdin.lock().lines()
ReadLine(line) ==
    /\ mpc = "read_line"
    /\ line \in {"event"} \cup ServerIds => clock[clock_index] < MaxLocal
    /\ line \in ServerIds => Len(sent) < MaxSent
    /\ input' = line
    /\ mpc' = "lock"
    /\ ended' = (ended \/ line = "end")
    /\ UNCHANGED <<seen, clockVars, distVars, orderVars, buildVars, handlerVars, lockVars, netVars>>

\* stdin is closed: the loop is over
ReadEof ==
    /\ mpc = "read_line"
    /\ mpc' = "sleep"
    /\ ended' = TRUE
    /\ UNCHANGED <<input, seen, clockVars, distVars, orderVars, buildVars, handlerVars, lockVars, netVars>>

\* let mut server = server.lock().unwrap()
MainLock ==
    /\ mpc = "lock"
    /\ can_lock(mutex)
    /\ ~poisoned
    /\ mutex' = "main"
    /\ mpc' = "exec"
    /\ UNCHANGED <<input, ended, seen, poisoned, shutdown_signal,
                   clockVars, distVars, orderVars, buildVars, handlerVars, netVars>>

\* lock() of a poisoned mutex is Err: unwrap panics in main, the process ends
MainLockPoisoned ==
    /\ mpc = "lock"
    /\ can_lock(mutex)
    /\ poisoned
    /\ mpc' = "panicked"
    /\ hpc' = AfterExit(hpc)
    /\ UNCHANGED <<input, ended, seen, stream, msg_clock, mi, merged,
                   lockVars, clockVars, distVars, orderVars, buildVars, netVars>>

\* "end": break (the guard is dropped)
MainEnd ==
    /\ mpc = "exec"
    /\ input = "end"
    /\ mutex' = "none"
    /\ mpc' = "sleep"
    /\ UNCHANGED <<input, ended, seen, poisoned, shutdown_signal,
                   clockVars, distVars, orderVars, buildVars, handlerVars, netVars>>

\* "event": server.increment()
MainEvent ==
    /\ mpc = "exec"
    /\ input = "event"
    /\ clock' = increment(clock, clock_index)
    /\ last' = [op |-> "increment", pre |-> clock, remote |-> ZeroClock]
    /\ mutex' = "none"
    /\ mpc' = "read_line"
    /\ input' = ""
    /\ UNCHANGED <<ended, seen, poisoned, shutdown_signal, clock_index, sent,
                   distVars, orderVars, buildVars, handlerVars, netVars>>

\* "clock": println of server.clock
MainClock ==
    /\ mpc = "exec"
    /\ input = "clock"
    /\ seen' = [op |-> "clock", hpc |-> hpc]
    /\ mutex' = "none"
    /\ mpc' = "read_line"
    /\ input' = ""
    /\ UNCHANGED <<ended, poisoned, shutdown_signal,
                   clockVars, distVars, orderVars, buildVars, handlerVars, netVars>>

\* any other line that names no server: println, continue
MainBogus ==
    /\ mpc = "exec"
    /\ input = "bogus"
    /\ mutex' = "none"
    /\ mpc' = "read_line"
    /\ input' = ""
    /\ UNCHANGED <<ended, seen, poisoned, shutdown_signal,
                   clockVars, distVars, orderVars, buildVars, handlerVars, netVars>>

\* a server id: server.send_event(&to_address), connect and write_all succeed.
\* A message sent to the own port lands on the own listener.
MainSend ==
    /\ mpc = "exec"
    /\ input \in ServerIds
    /\ LET r == send_event(clock, clock_index)
           self == PortOf(input) = OwnPort
       IN  /\ clock' = r.clock
           /\ sent' = Append(sent, [to |-> PortOf(input), msg |-> r.msg])
           /\ seen' = [op |-> "send", hpc |-> hpc]
           /\ backlog' = IF self
                         THEN Append(backlog, Conn(delivered + 1, to_string(r.msg), TRUE))
                         ELSE backlog
           /\ delivered' = IF self THEN delivered + 1 ELSE delivered
           /\ due' = IF self
                     THEN due \cup Owed(Conn(delivered + 1, to_string(r.msg), TRUE))
                     ELSE due
    /\ last' = [op |-> "send_event", pre |-> clock, remote |-> ZeroClock]
    /\ mutex' = "none"
    /\ mpc' = "read_line"
    /\ input' = ""
    /\ UNCHANGED <<ended, poisoned, shutdown_signal, clock_index,
                   distVars, orderVars, buildVars, handlerVars>>

\* a server id: the increment is done, then connect(..).unwrap() or
\* write_all(..).unwrap() panics in main: the process ends
MainSendFails ==
    /\ mpc = "exec"
    /\ input \in ServerIds
    /\ PortOf(input) # OwnPort
    /\ clock' = send_event(clock, clock_index).clock
    /\ last' = [op |-> "send_failed", pre |-> clock, remote |-> ZeroClock]
    /\ mpc' = "panicked"
    /\ hpc' = AfterExit(hpc)
    /\ UNCHANGED <<input, ended, seen, stream, msg_clock, mi, merged, clock_index, sent,
                   lockVars, distVars, orderVars, buildVars, netVars>>

\* thread::sleep(1 s) is over: main returns and the process ends
MainExit ==
    /\ mpc = "sleep"
    /\ mpc' = "exited"
    /\ hpc' = AfterExit(hpc)
    /\ UNCHANGED <<input, ended, seen, stream, msg_clock, mi, merged,
                   lockVars, clockVars, distVars, orderVars, buildVars, netVars>>

(******************** the handler thread (handle_events) *******************)
\* let mut server = server_clone.lock().unwrap()
HandlerLock ==
    /\ Alive
    /\ hpc = "spawned"
    /\ can_lock(mutex)
    /\ mutex' = "handler"
    /\ hpc' = "loop"
    /\ UNCHANGED <<stream, msg_clock, mi, merged, poisoned, shutdown_signal,
                   mainVars, clockVars, distVars, orderVars, buildVars, netVars>>

\* while !*self.shutdown_signal.0.lock().unwrap()
HandlerLoop ==
    /\ Alive
    /\ hpc = "loop"
    /\ hpc' = IF shutdown_signal THEN "exited" ELSE "accept"
    /\ mutex' = IF shutdown_signal THEN "none" ELSE mutex
    /\ UNCHANGED <<stream, msg_clock, mi, merged, poisoned, shutdown_signal,
                   mainVars, clockVars, distVars, orderVars, buildVars, netVars>>

\* self.listener.accept() is Ok((stream, _))
HandlerAccept ==
    /\ Alive
    /\ hpc = "accept"
    /\ backlog # <<>>
    /\ stream' = Head(backlog)
    /\ backlog' = Tail(backlog)
    /\ hpc' = "read"
    /\ UNCHANGED <<msg_clock, mi, merged, delivered, due, lockVars,
                   mainVars, clockVars, distVars, orderVars, buildVars>>

\* accept() is Err(WouldBlock): break; handle_events returns, the thread's
\* closure ends and drops the guard
HandlerWouldBlock ==
    /\ Alive
    /\ hpc = "accept"
    /\ backlog = <<>>
    /\ hpc' = "exited"
    /\ mutex' = "none"
    /\ UNCHANGED <<stream, msg_clock, mi, merged, poisoned, shutdown_signal,
                   mainVars, clockVars, distVars, orderVars, buildVars, netVars>>

\* accept() is another Err(e): eprintln, continue
HandlerAcceptError ==
    /\ Alive
    /\ hpc = "accept"
    /\ hpc' = "loop"
    /\ UNCHANGED <<stream, msg_clock, mi, merged, lockVars,
                   mainVars, clockVars, distVars, orderVars, buildVars, netVars>>

\* stream.read(&mut buffer) returns the peer's bytes, from_slice is Ok:
\* update_clock(&msg.clock) starts
HandlerRead ==
    /\ Alive
    /\ hpc = "read"
    /\ stream.written
    /\ from_slice_ok(read(stream.bytes))
    /\ LET msg == from_slice(read(stream.bytes))
       IN  /\ msg_clock' = merge_input(msg)
           /\ last' = [op |-> "merging", pre |-> clock, remote |-> msg.clock,
                       sender |-> msg.sender_id]
    /\ mi' = 0
    /\ hpc' = "merge"
    /\ UNCHANGED <<stream, merged, clock_index, clock, sent, lockVars,
                   mainVars, distVars, orderVars, buildVars, netVars>>

\* from_slice is Err: expect("cannot deserialize message") panics, the thread
\* unwinds, the guard is dropped and the mutex is poisoned
HandlerReadPanics ==
    /\ Alive
    /\ hpc = "read"
    /\ stream.written
    /\ ~from_slice_ok(read(stream.bytes))
    /\ hpc' = "panicked"
    /\ mutex' = "none"
    /\ poisoned' = TRUE
    /\ UNCHANGED <<stream, msg_clock, mi, merged, shutdown_signal,
                   mainVars, clockVars, distVars, orderVars, buildVars, netVars>>

\* one turn of update_clock's loop
HandlerMerge ==
    /\ Alive
    /\ hpc = "merge"
    /\ clock' = merge_entry(clock, mi, msg_clock)
    /\ mi' = IF mi = N - 1 THEN 0 ELSE mi + 1
    /\ hpc' = IF mi = N - 1 THEN "incr" ELSE "merge"
    /\ UNCHANGED <<stream, msg_clock, merged, clock_index, sent, last, lockVars,
                   mainVars, distVars, orderVars, buildVars, netVars>>

\* update_clock's self.increment(), then the log lines; back to the loop's test
HandlerIncr ==
    /\ Alive
    /\ hpc = "incr"
    /\ clock' = increment(clock, clock_index)
    /\ last' = [last EXCEPT !.op = "update_clock"]
    /\ merged' = merged \cup {stream.id}
    /\ stream' = NoStream
    /\ msg_clock' = ZeroClock
    /\ hpc' = "loop"
    /\ UNCHANGED <<mi, clock_index, sent, lockVars,
                   mainVars, distVars, orderVars, buildVars, netVars>>

(******************************* the peers **********************************)
\* a peer connects to the listener; it has written its bytes or not yet
PeerConnect(bytes, written) ==
    /\ Alive
    /\ delivered < MaxDeliveries
    /\ backlog' = Append(backlog, Conn(delivered + 1, bytes, written))
    /\ delivered' = delivered + 1
    /\ due' = due \cup Owed(Conn(delivered + 1, bytes, written))
    /\ UNCHANGED <<mainVars, handlerVars, lockVars, clockVars, distVars, orderVars, buildVars>>

\* a peer whose connection is still pending writes its bytes
PeerWritePending(k) ==
    /\ Alive
    /\ ~backlog[k].written
    /\ backlog' = [backlog EXCEPT ![k].written = TRUE]
    /\ due' = due \cup Owed(backlog'[k])
    /\ UNCHANGED <<delivered, mainVars, handlerVars, lockVars, clockVars, distVars, orderVars, buildVars>>

\* the peer of the accepted connection writes its bytes
PeerWriteAccepted ==
    /\ Alive
    /\ hpc = "read"
    /\ ~stream.written
    /\ stream' = [stream EXCEPT !.written = TRUE]
    /\ due' = due \cup Owed(stream')
    /\ UNCHANGED <<hpc, msg_clock, mi, merged, backlog, delivered,
                   mainVars, lockVars, clockVars, distVars, orderVars, buildVars>>

MainStep ==
    \/ MainLock
    \/ MainLockPoisoned
    \/ MainEnd
    \/ MainEvent
    \/ MainClock
    \/ MainBogus
    \/ MainSend
    \/ MainSendFails
    \/ MainExit

HandlerStep ==
    \/ HandlerLock
    \/ HandlerLoop
    \/ HandlerAccept
    \/ HandlerWouldBlock
    \/ HandlerRead
    \/ HandlerReadPanics
    \/ HandlerMerge
    \/ HandlerIncr

NextProc ==
    \/ \E line \in Commands : ReadLine(line)
    \/ ReadEof
    \/ MainStep
    \/ HandlerStep
    \/ HandlerAcceptError
    \/ \E bytes \in Payloads, written \in BOOLEAN : PeerConnect(bytes, written)
    \/ \E k \in 1 .. Len(backlog) : PeerWritePending(k)
    \/ PeerWriteAccepted

SpecProc == InitProc /\ [][NextProc]_vars

\* The threads are scheduled: a thread that can take its next step takes it,
\* and the handler thread is not starved of the mutex by the command loop.
\* Nothing is assumed of stdin or of new connections; accept's other errors
\* are transient (a pending connection is accepted in the end), and a peer
\* that has connected is assumed to write.
FairSpecProc ==
    /\ SpecProc
    /\ WF_vars(MainStep)
    /\ WF_vars(HandlerStep)
    /\ SF_vars(HandlerLock)
    /\ SF_vars(HandlerAccept)
    /\ WF_vars(PeerWriteAccepted)
    /\ WF_vars(\E k \in 1 .. Len(backlog) : PeerWritePending(k))

(***************************************************************************)
(* Claims on SpecProc.                                                     *)
(***************************************************************************)
\* the handler thread is inside handle_events
HandlerInside == hpc \in {"loop", "accept", "read", "merge", "incr"}

\* connection ids
ConnIds == 1 .. (MaxDeliveries + MaxSent)

\* C7: mutual exclusion on the clock. The command loop is never executing a
\* command on the Server while the handler thread is inside handle_events,
\* and no snapshot ('clock', or the one a send takes) was taken while a merge
\* was under way (some entries maxed, or the trailing increment missing).
C7_MutualExclusion ==
    /\ ~(mpc = "exec" /\ HandlerInside)
    /\ seen.op # "none" => seen.hpc \notin {"loop", "accept", "read", "merge", "incr"}

\* C7 witness: the command loop has taken a snapshot before, has read 'clock'
\* and stands at the lock while the handler thread is between update_clock's
\* loop and its increment.
C7_Witness ==
    /\ mpc = "lock"
    /\ input = "clock"
    /\ hpc = "incr"
    /\ seen.op = "send"

\* C8: the accept loop stays active while the process is running. As long as
\* no end was read and shutdown is not signalled, handle_events has not
\* returned.
C8_AcceptLoopStaysActive ==
    (Alive /\ ~ended /\ ~shutdown_signal) => hpc # "exited"

\* C9: delivery liveness. A well-formed message written to the listener while
\* the process is running is eventually merged (unless the process is told
\* to end or ends meanwhile).
C9_DeliveryLiveness ==
    \A k \in ConnIds : (k \in due) ~> (k \in merged \/ ended \/ ~Alive)

\* C10: the command loop never waits for the accept loop. A command line that
\* has been read is never kept at the lock by the handler thread holding the
\* mutex inside handle_events while it is blocked in the read of a peer that
\* has not written yet.
C10_CommandNeverWaits ==
    ~(mpc = "lock" /\ mutex = "handler" /\ hpc = "read" /\ ~stream.written)

\* the handler thread has accepted a connection and has not finished with its
\* message: it waits for the bytes, decodes, or is inside update_clock
InFlight == stream # NoStream

\* C11: shutdown safety. After 'end' the process has exited only with the
\* accept loop over and no decode or merge of an accepted message in flight:
\* the handler thread was not ended by the exit while it held an accepted
\* connection.
C11_ShutdownSafety ==
    (mpc = "exited" /\ input = "end") => ~(hpc = "killed" /\ InFlight)

\* C12: shutdown signalling. Once 'end' has been received (the command loop
\* has left its loop on it), the shutdown signal is set.
C12_ShutdownSignalled ==
    (input = "end" /\ mpc \in {"sleep", "exited"}) => shutdown_signal

\* C13: a failed send is not fatal and keeps the increment. After a send to a
\* resolved peer has failed, the process is still running and the clock is
\* the pre-send clock with the own entry one higher.
C13_SendFailureNotFatal ==
    last.op = "send_failed" => (Alive /\ clock = increment(last.pre, own))

\* the handler thread has read a payload that is not a sender with exactly N
\* clock entries, and from_slice has refused it
MalformedRefused ==
    /\ hpc = "panicked"
    /\ stream # NoStream
    /\ stream.written
    /\ ~well_formed(stream.bytes)

\* C14: a malformed inbound payload is isolated. After the handler thread has
\* refused a malformed payload, the process is not brought down by it: the
\* mutex of the Server is not poisoned and the command loop has not panicked
\* taking it.
C14_MalformedIsolated ==
    MalformedRefused => ~(poisoned /\ mpc = "panicked")

\* C15: round trip of the wire path. For every message the process has sent,
\* from_slice of the receive buffer filled by one read of to_string's bytes
\* is Ok and yields that message.
C15_WireRoundTrip ==
    \A k \in 1 .. Len(sent) :
        LET buf == read(to_string(sent[k].msg))
        IN  from_slice_ok(buf) /\ from_slice(buf) = sent[k].msg

(***************************************************************************)
(* SpecOrder: one Server and a fixed collection of calls (increment, and   *)
(* update_clock with received clocks), made one by one in any order.       *)
(***************************************************************************)
\* a received clock: any own-index entry, the other entries 0 or MaxVal
OrderRemotes(idx) ==
    {[i \in Index |-> IF i = idx THEN a ELSE b] : a \in 0 .. MaxVal, b \in {0, MaxVal}}

OrderCalls(idx) ==
    {[op |-> "increment", remote |-> ZeroClock]}
        \cup {[op |-> "update_clock", remote |-> r] : r \in OrderRemotes(idx)}

\* the clock the calls start from: the own entry is 1 or more
StartClocks(idx) == {[new(idx) EXCEPT ![idx] = s] : s \in 1 .. MaxVal}

\* one call on the Server
apply(c, idx, call) ==
    IF call.op = "increment"
    THEN increment(c, idx)
    ELSE update_clock(c, idx, call.remote)

\* the calls of a sequence made in its order
RECURSIVE apply_all(_, _, _)
apply_all(c, idx, calls) ==
    IF calls = <<>>
    THEN c
    ELSE apply_all(apply(c, idx, Head(calls)), idx, Tail(calls))

InitOrder ==
    /\ clock_index \in Index
    /\ clock \in StartClocks(clock_index)
    /\ sent = <<>>
    /\ last = NoCall(clock)
    /\ plan \in UNION {[1 .. n -> OrderCalls(clock_index)] : n \in 0 .. MaxPlan}
    /\ done = <<>>
    /\ IdleBuild
    /\ IdleDist
    /\ IdleProc

\* call k of the plan, not made yet, is made now
OrderApply(k) ==
    /\ \A j \in 1 .. Len(done) : done[j] # k
    /\ clock' = apply(clock, clock_index, plan[k])
    /\ done' = Append(done, k)
    /\ UNCHANGED <<clock_index, sent, last, plan, distVars, procVars, buildVars>>

NextOrder == \E k \in 1 .. Len(plan) : OrderApply(k)

SpecOrder == InitOrder /\ [][NextOrder]_vars

\* the clock the calls started from
start == last.pre

\* every call of the plan has been made
AllDone == Len(done) = Len(plan)

\* no received clock of the plan has an own-index entry above the start's
NoneAhead == \A k \in 1 .. Len(plan) : plan[k].remote[own] <= start[own]

\* C16 as stated: interleaving independence for arbitrary received clocks.
\* Once every call has been made, in whatever order, the clock is the one
\* the plan's own order gives, and the own-index entry has advanced by
\* exactly the number of calls.
C16_AnyOrderSameClock ==
    AllDone =>
        /\ clock = apply_all(start, own, plan)
        /\ clock[own] = start[own] + Len(plan)

\* C16 amended: once every call has been made, in whatever order, the entries
\* other than the own one are those the plan's own order gives; when no
\* received clock has an own-index entry above the starting one, so is the
\* own-index entry, which has then advanced by exactly the number of calls.
C16_OrderIndependentBelow ==
    AllDone =>
        /\ \A i \in Index \ {own} : clock[i] = apply_all(start, own, plan)[i]
        /\ NoneAhead =>
              /\ clock = apply_all(start, own, plan)
              /\ clock[own] = start[own] + Len(plan)

\* C16 witness: a local event and two merges, one of them raising another
\* entry, none ahead on the own entry, made in an order that is not the
\* plan's.
C16_Witness ==
    /\ AllDone
    /\ Len(plan) = 3
    /\ NoneAhead
    /\ done[1] # 1
    /\ \E k \in 1 .. Len(plan) : plan[k].op = "increment"
    /\ \E k \in 1 .. Len(plan) :
          /\ plan[k].op = "update_clock"
          /\ \E i \in Index \ {own} : plan[k].remote[i] > start[i]
    /\ \E k \in 1 .. Len(plan) :
          /\ plan[k].op = "update_clock"
          /\ plan[k].remote[own] = start[own]

\* C17: the sender's identity neither gates nor alters a merge. Whoever the
\* decoded message says it is from, a server or not, what handle_events
\* merges is the message's clock, and the clock after the merge is made of
\* the receiver's clock before it and the message's clock alone.
C17_SenderDoesNotMatter ==
    /\ hpc \in {"merge", "incr"} => msg_clock = last.remote
    /\ last.op = "update_clock" =>
          clock = [i \in Index |->
                      IF i = own
                      THEN Max(last.pre[i], last.remote[i]) + 1
                      ELSE Max(last.pre[i], last.remote[i])]

\* C17 witness: the message of a sender that is none of the three servers has
\* been merged, and it raised an entry of the receiver's clock.
C17_Witness ==
    /\ last.op = "update_clock"
    /\ last.sender \notin ServerIds
    /\ \E i \in Index \ {own} : clock[i] > last.pre[i]

\* C18: causality implies clock order. The clock of every receive event is
\* point-wise >= the message's clock and >= the receiver's clock before it,
\* and above both in the receiver's own entry; and for any two events A and
\* B, if A happened before B then A's clock is point-wise <= B's and
\* strictly less in some entry.
C18_CausalityImpliesOrder ==
    /\ \A b \in 1 .. Len(hist) :
          hist[b].kind = "receive" =>
              /\ \A i \in Index :
                    /\ hist[b].clock[i] >= hist[b].msg[i]
                    /\ hist[b].clock[i] >= hist[b].pre[i]
              /\ hist[b].clock[hist[b].proc] > hist[b].msg[hist[b].proc]
              /\ hist[b].clock[hist[b].proc] > hist[b].pre[hist[b].proc]
    /\ \A a, b \in 1 .. Len(hist) :
          a \in hist[b].past => ClockLess(hist[a].clock, hist[b].clock)

\* C18 witness: a receive whose message is ahead of the receiver in one entry
\* and behind it in another, followed on the receiver by a later event that
\* has the message's send on another server in its past.
C18_Witness ==
    \E a, b, c \in 1 .. Len(hist) :
        /\ hist[a].kind = "send"
        /\ hist[b].kind = "receive"
        /\ hist[b].msg = hist[a].clock
        /\ hist[a].proc # hist[b].proc
        /\ \E i, j \in Index : hist[b].msg[i] > hist[b].pre[i] /\ hist[b].pre[j] > hist[b].msg[j]
        /\ hist[c].proc = hist[b].proc
        /\ b \in hist[c].past
        /\ a \in hist[c].past

\* C19: no server knows more about a peer than the peer itself. For all
\* servers p and q, q's entry for p, and the entry for p of every message in
\* flight, is <= p's own entry in p's clock.
C19_NoOneKnowsMore ==
    \A p \in Index :
        /\ \A q \in Index : clocks[q][p] <= clocks[p][p]
        /\ \A m \in net : m.msg.clock[p] <= clocks[p][p]

\* C19 witness: q has caught up with p's own entry through a message of p,
\* and a message q sent afterwards, still in flight, carries that entry.
C19_Witness ==
    \E p, q \in Index :
        /\ p # q
        /\ clocks[p][p] >= 2
        /\ clocks[q][p] = clocks[p][p]
        /\ \E m \in net :
              /\ m.msg.sender_id = IdOf(q)
              /\ m.msg.clock[p] = clocks[p][p]

(***************************************************************************)
(* SpecWide: one Server whose entries reach the ends of the i32 range.     *)
(* `+= 1` on i32::MAX is an overflow: a build with overflow-checks (dev)   *)
(* panics there, a build without (release) wraps to i32::MIN.              *)
(***************************************************************************)
\* entries of a received clock: any i32, the ends and the negatives included
WideVals == {MinI32, -1, 0, MaxI32}
WideClocks == [Index -> WideVals]

\* the own entry is within MaxOwn of where a run of the model starts or wraps
WideRoom(x) ==
    \/ x >= 0 /\ x < MaxOwn
    \/ x >= MaxI32 - MaxOwn
    \/ x < MinI32 + MaxOwn

\* the thread that made the last call panicked in it
WidePanicked == last.op = "panic"

InitWide ==
    /\ clock_index \in Index
    /\ clock \in {new(clock_index), [new(clock_index) EXCEPT ![clock_index] = MaxI32 - 1]}
    /\ sent = <<>>
    /\ last = NoCall(clock)
    /\ overflow_checks \in BOOLEAN
    /\ IdleOrder
    /\ IdleDist
    /\ IdleProc

\* increment(): the sum fits, or the build lets it wrap
WideIncrement ==
    /\ ~WidePanicked
    /\ WideRoom(clock[clock_index])
    /\ clock[clock_index] = MaxI32 => ~overflow_checks
    /\ clock' = increment(clock, clock_index)
    /\ last' = [op |-> "increment", pre |-> clock, remote |-> ZeroClock]
    /\ UNCHANGED <<clock_index, sent, distVars, procVars, orderVars, buildVars>>

\* increment() on i32::MAX, overflow-checks on: panic, the entry is not written
WideIncrementPanics ==
    /\ ~WidePanicked
    /\ clock[clock_index] = MaxI32
    /\ overflow_checks
    /\ last' = [op |-> "panic", pre |-> clock, remote |-> ZeroClock]
    /\ UNCHANGED <<clock_index, clock, sent, distVars, procVars, orderVars, buildVars>>

\* update_clock(other): the sum of the trailing increment fits, or wraps
WideUpdateClock(other) ==
    /\ ~WidePanicked
    /\ WideRoom(clock[clock_index])
    /\ Max(clock[clock_index], other[clock_index]) = MaxI32 => ~overflow_checks
    /\ clock' = update_clock(clock, clock_index, other)
    /\ last' = [op |-> "update_clock", pre |-> clock, remote |-> other]
    /\ UNCHANGED <<clock_index, sent, distVars, procVars, orderVars, buildVars>>

\* update_clock(other), overflow-checks on: the loop has stored the maxima,
\* the trailing increment() panics on i32::MAX
WideUpdateClockPanics(other) ==
    /\ ~WidePanicked
    /\ WideRoom(clock[clock_index])
    /\ Max(clock[clock_index], other[clock_index]) = MaxI32
    /\ overflow_checks
    /\ clock' = merge_entry(merge_entry(merge_entry(clock, 0, other), 1, other), 2, other)
    /\ last' = [op |-> "panic", pre |-> clock, remote |-> other]
    /\ UNCHANGED <<clock_index, sent, distVars, procVars, orderVars, buildVars>>

NextWide ==
    \/ WideIncrement
    \/ WideIncrementPanics
    \/ \E other \in WideClocks : WideUpdateClock(other)
    \/ \E other \in WideClocks : WideUpdateClockPanics(other)

SpecWide == InitWide /\ [][NextWide]_vars

\* C20: the entries stay non-negative within the i32 range. In every state
\* every entry of the clock is >= 0, after an increment of an own entry that
\* is i32::MAX (reached locally or taken from a received clock) and after
\* merges of received clocks with any i32 entries, negative ones included.
C20_EntriesNonNegative ==
    \A i \in Index : clock[i] >= 0

====
